---- MODULE Spec2Model ----
(***************************************************************************)
(* 3D model asset pipeline: upload (api/upload.js), thumbnail rendering    *)
(* (api/thumbnail.js), cascade delete and listing, all on one shared blob  *)
(* store.  Every handler is cut at its awaits on the store, so that        *)
(* concurrent requests interleave exactly where the code suspends.         *)
(* Request slots of one kind are taken in order: the handlers share no     *)
(* state but the store, so which slot serves a request makes no difference.*)
(*                                                                         *)
(* Strings are sequences of tokens (<<"mesh", ".", "obj">>), so that       *)
(* endsWith, split('.').pop(), substring(1) and the template literals that *)
(* build keys are computed rather than assumed.                            *)
(***************************************************************************)
EXTENDS Integers, Sequences, FiniteSets, TLC

VARIABLES store, metaPuts, up, rd, dl, ls, dispatched

vars == <<store, metaPuts, up, rd, dl, ls, dispatched>>

---------------------------------------------------------------------------
(* Bounds *)

\* requests of each kind, and requests in all, that one run receives
MaxUploads == 2
MaxRenders == 2
MaxDeletes == 2
MaxRequests == 3
\* entries in an uploaded archive
MaxEntries == 2
\* the greatest reading of Date.now()
MaxTime == 1
\* entries in an archive of the selection specification
MaxArchive == 3
\* list requests
MaxLists == 1

---------------------------------------------------------------------------
(* Values *)

Undefined == [undefined |-> TRUE]

\* ids minted by upload; UnknownId is an id no upload ever minted
Ids == 1 .. MaxUploads
UnknownId == 0
AllIds == Ids \cup {UnknownId}

---------------------------------------------------------------------------
(* String helpers *)

ToLower == [t \in {"OBJ", "GLTF", "PNG", "ZIP"} |->
              CASE t = "OBJ" -> "obj" [] t = "GLTF" -> "gltf"
                [] t = "PNG" -> "png" [] t = "ZIP" -> "zip"]

toLowerCase(s) == [i \in 1 .. Len(s) |-> IF s[i] \in DOMAIN ToLower THEN ToLower[s[i]] ELSE s[i]]

endsWith(s, e) == /\ Len(s) >= Len(e)
                  /\ SubSeq(s, Len(s) - Len(e) + 1, Len(s)) = e

\* s.split('.').pop(): the tokens after the last "."
RECURSIVE lastSegment(_)
lastSegment(s) == IF s = <<>> THEN <<>>
                  ELSE IF s[Len(s)] = "." THEN <<>>
                  ELSE Append(lastSegment(SubSeq(s, 1, Len(s) - 1)), s[Len(s)])

RECURSIVE trimStart(_)
trimStart(s) == IF s # <<>> /\ Head(s) = " " THEN trimStart(Tail(s)) ELSE s

RECURSIVE trimEnd(_)
trimEnd(s) == IF s # <<>> /\ s[Len(s)] = " " THEN trimEnd(SubSeq(s, 1, Len(s) - 1)) ELSE s

trim(s) == trimEnd(trimStart(s))

substring1(s) == Tail(s)

---------------------------------------------------------------------------
(* Blob store: keys, locations, put / del / fetch *)

\* `models/${id}/` followed by a file name
Key(id, file) == [id |-> id, file |-> file]

modelKey(id, ext) == Key(id, <<"model">> \o ext)
textureKey(id) == Key(id, <<"texture", ".", "png">>)
\* the thumbnail key with the id left out of the path
thumbnailKeyShared(id) == Key(UnknownId, <<"thumbnail", ".", "png">>)

thumbnailKey(id) == Key(id, <<"thumbnail", ".", "png">>)
metadataKey(id) == Key(id, <<"metadata", ".", "json">>)

\* the public url a put returns for a key; del takes urls and pathnames alike
Url(key) == [scheme |-> "https", key |-> key]
Pathname(key) == [scheme |-> "", key |-> key]
KeyOf(loc) == loc.key

Has(s, key) == key \in DOMAIN s

Put(s, key, val) == [k \in DOMAIN s \cup {key} |-> IF k = key THEN val ELSE s[k]]

\* batch delete; a key that is already absent is not an error
Del(s, keys) == [k \in DOMAIN s \ keys |-> s[k]]

Bytes(tag) == [bytes |-> tag]

---------------------------------------------------------------------------
(* Upload inputs *)

Entry(name, dir) == [name |-> name, dir |-> dir]

EntryPool == { Entry(<<"mesh", ".", "obj">>, FALSE),
               Entry(<<"scene", ".", "GLTF">>, FALSE),
               Entry(<<"skin", ".", "png">>, FALSE),
               Entry(<<"tex", ".", "png">>, TRUE),
               Entry(<<"readme", ".", "txt">>, FALSE) }

Archives == UNION { [1 .. n -> EntryPool] : n \in 0 .. MaxEntries }

\* fields.modelName?.[0]: absent, or the text sent
RawNames == { [given |-> FALSE, text |-> <<>>] } \cup
            { [given |-> TRUE, text |-> t] : t \in { <<>>, <<" ">>, <<"Chair">>, <<" ", "Chair", " ">> } }

Filenames == { <<"a", ".", "zip">>, <<"a", ".", "ZIP">>, <<"a", ".", "rar">> }

\* files.file?.[0]: absent, or a file whose bytes are a zip archive or are not
Files == { [given |-> FALSE, originalFilename |-> <<>>, wellFormed |-> FALSE, entries |-> <<>>] } \cup
         { [given |-> TRUE, originalFilename |-> f, wellFormed |-> TRUE, entries |-> a] :
              f \in Filenames, a \in Archives } \cup
         { [given |-> TRUE, originalFilename |-> f, wellFormed |-> FALSE, entries |-> <<>>] :
              f \in Filenames }

NoForm == [parsed |-> FALSE,
           modelName |-> [given |-> FALSE, text |-> <<>>],
           file |-> [given |-> FALSE, originalFilename |-> <<>>, wellFormed |-> FALSE, entries |-> <<>>]]

\* a multipart form as formidable hands it over, or a form it cannot parse
Forms == { NoForm } \cup { [parsed |-> TRUE, modelName |-> n, file |-> f] : n \in RawNames, f \in Files }

Zip(entries) == [given |-> TRUE, originalFilename |-> <<"a", ".", "ZIP">>, wellFormed |-> TRUE, entries |-> entries]

\* the forms the requests of the whole-system specification are drawn from
SampleForms ==
  { [parsed |-> TRUE, modelName |-> [given |-> TRUE, text |-> <<" ", "Chair", " ">>], file |-> f] :
      f \in { [given |-> TRUE, originalFilename |-> <<"a", ".", "zip">>, wellFormed |-> FALSE, entries |-> <<>>],
              Zip(<< Entry(<<"skin", ".", "png">>, FALSE), Entry(<<"scene", ".", "GLTF">>, FALSE) >>) } }

\* the archives whose selection is examined entry by entry: longer, and with
\* a second texture, a directory named like a model and a .json model
SelectPool == EntryPool \cup { Entry(<<"paint", ".", "PNG">>, FALSE),
                               Entry(<<"lib", ".", "glb">>, TRUE),
                               Entry(<<"data", ".", "json">>, FALSE) }

SelectForms ==
  { [parsed |-> TRUE, modelName |-> [given |-> TRUE, text |-> <<"Chair">>], file |-> Zip(a)] :
      a \in UNION { [1 .. n -> SelectPool] : n \in 0 .. MaxArchive } }

modelExtensions == << <<".", "obj">>, <<".", "gltf">>, <<".", "glb">>, <<".", "json">> >>

\* modelExtensions.find(e => fileName.endsWith(e))
findExt(fileName) ==
  LET hits == { i \in 1 .. Len(modelExtensions) : endsWith(fileName, modelExtensions[i]) }
  IN  IF hits = {} THEN <<>>
      ELSE modelExtensions[CHOOSE i \in hits : \A j \in hits : i <= j]

\* the callback with the !textureFile and !modelFile tests left out: the last match stays
RECURSIVE scanLastMatch(_, _, _)
scanLastMatch(zip, i, acc) ==
  IF i > Len(zip) THEN acc
  ELSE LET fileName == toLowerCase(zip[i].name)
           ext == findExt(fileName)
           a1 == IF endsWith(fileName, <<".", "png">>) /\ ~zip[i].dir
                 THEN [acc EXCEPT !.textureFile = zip[i]] ELSE acc
           a2 == IF ext # <<>> /\ ~zip[i].dir
                 THEN [a1 EXCEPT !.modelFile = zip[i], !.modelExtension = ext] ELSE a1
       IN  scanLastMatch(zip, i + 1, a2)

\* the zip.forEach callback, folded over the entries in enumeration order
RECURSIVE scan(_, _, _)
scan(zip, i, acc) ==
  IF i > Len(zip) THEN acc
  ELSE LET fileName == toLowerCase(zip[i].name)
           ext == findExt(fileName)
           a1 == IF endsWith(fileName, <<".", "png">>) /\ ~zip[i].dir /\ acc.textureFile = Undefined
                 THEN [acc EXCEPT !.textureFile = zip[i]] ELSE acc
           a2 == IF ext # <<>> /\ ~zip[i].dir /\ a1.modelFile = Undefined
                 THEN [a1 EXCEPT !.modelFile = zip[i], !.modelExtension = ext] ELSE a1
       IN  scan(zip, i + 1, a2)

\* the selection with the directory test left out
RECURSIVE scanAnyEntry(_, _, _)
scanAnyEntry(zip, i, acc) ==
  IF i > Len(zip) THEN acc
  ELSE LET fileName == toLowerCase(zip[i].name)
           ext == findExt(fileName)
           a1 == IF endsWith(fileName, <<".", "png">>) /\ acc.textureFile = Undefined
                 THEN [acc EXCEPT !.textureFile = zip[i]] ELSE acc
           a2 == IF ext # <<>> /\ a1.modelFile = Undefined
                 THEN [a1 EXCEPT !.modelFile = zip[i], !.modelExtension = ext] ELSE a1
       IN  scanAnyEntry(zip, i + 1, a2)

selectFilesAnyEntry(zip) ==
  scanAnyEntry(zip, 1, [modelFile |-> Undefined, textureFile |-> Undefined, modelExtension |-> <<>>])

selectFiles(zip) == scan(zip, 1, [modelFile |-> Undefined, textureFile |-> Undefined, modelExtension |-> <<>>])

\* crypto.randomUUID(): a value no earlier call returned
UsedIds == { up[u].id : u \in { v \in 1 .. MaxUploads : up[v].id # UnknownId } }

randomUUID(used) == CHOOSE i \in Ids \ used : \A j \in Ids \ used : i <= j

---------------------------------------------------------------------------
(* Request state *)

\* an upload request: its form, the handler's position and locals, its answer,
\* and what became of the thumbnail request it fired
UpIdle == [pc |-> "idle", form |-> NoForm, id |-> UnknownId, name |-> <<>>, ext |-> <<>>,
           modelFile |-> Undefined, textureFile |-> Undefined,
           modelUrl |-> Undefined, textureUrl |-> Undefined, timestamp |-> 0,
           resp |-> 0, body |-> Undefined, dispatch |-> "none"]

RdIdle == [pc |-> "idle", id |-> UnknownId, signalled |-> FALSE, thumbnailBlobUrl |-> Undefined,
           metadata |-> Undefined, resp |-> 0]

\* err: what made the handler give up ("bodyThrew", "notOk", "fetchThrew", "delThrew")
DlIdle == [pc |-> "idle", id |-> UnknownId, modelMetadata |-> Undefined, resp |-> 0, err |-> "none"]

\* a list request: the metadata files the store listed, what the get of each
\* returned (Pending until it settles, Null when it failed), and the answer
Pending == [pending |-> TRUE]
Null == [null |-> TRUE]

LsIdle == [pc |-> "idle", metadataFiles |-> <<>>, fetched |-> <<>>, resp |-> 0, body |-> <<>>]

LsDone(resp, body) == [LsIdle EXCEPT !.pc = "done", !.resp = resp, !.body = body]

\* a handler that has answered: its locals are gone
UpDone(form, id, resp, body, dispatch) ==
  [UpIdle EXCEPT !.pc = "done", !.form = form, !.id = id, !.resp = resp, !.body = body,
                 !.dispatch = dispatch]

RdDone(id, resp) == [RdIdle EXCEPT !.pc = "done", !.id = id, !.resp = resp]

\* a render handler that threw outside its try block: it has sent no answer
RdThrew == [RdIdle EXCEPT !.pc = "threw"]

DlDone(id, resp, err) == [DlIdle EXCEPT !.pc = "done", !.id = id, !.resp = resp, !.err = err]

\* store: the blobs by key; metaPuts[id]: how many puts of models/{id}/metadata.json
\* the store has accepted
Init == /\ store = << >>
        /\ metaPuts = [i \in AllIds |-> 0]
        /\ up = [u \in 1 .. MaxUploads |-> UpIdle]
        /\ rd = [r \in 1 .. MaxRenders |-> RdIdle]
        /\ dl = [d \in 1 .. MaxDeletes |-> DlIdle]
        /\ ls = [l \in 1 .. MaxLists |-> LsIdle]
        /\ dispatched = [i \in Ids |-> 0]

\* requests received so far
Started == Cardinality({ u \in 1 .. MaxUploads : up[u].pc # "idle" })
           + Cardinality({ r \in 1 .. MaxRenders : rd[r].pc # "idle" })
           + Cardinality({ d \in 1 .. MaxDeletes : dl[d].pc # "idle" })
           + Cardinality({ l \in 1 .. MaxLists : ls[l].pc # "idle" })

\* ids a client can name: those whose upload has published its metadata
Published == { up[u].id : u \in { v \in 1 .. MaxUploads : up[v].pc = "done" /\ up[v].resp = 200 } }

---------------------------------------------------------------------------
(* upload.js handler *)

\* lines 42-93: parse the form, validate, open the archive, pick the entries, mint the id
UploadStart(u, form) ==
  /\ up[u].pc = "idle"
  /\ IF u = 1 THEN TRUE ELSE up[u - 1].pc # "idle"
  /\ Started < MaxRequests
  /\ LET rawName == form.modelName
         file == form.file
         modelName == trim(rawName.text)
         reject(code) == up' = [up EXCEPT ![u] = UpDone(form, UnknownId, code, Undefined, "none")]
     IN  IF ~form.parsed THEN reject(500)
         ELSE IF ~rawName.given \/ modelName = <<>> \/ ~file.given THEN reject(400)
         ELSE IF toLowerCase(lastSegment(file.originalFilename)) # <<"zip">> THEN reject(400)
         ELSE IF ~file.wellFormed THEN reject(500)
         ELSE LET sel == selectFiles(file.entries)
              IN  IF sel.modelFile = Undefined THEN reject(400)
                  ELSE IF sel.textureFile = Undefined THEN reject(400)
                  ELSE up' = [up EXCEPT ![u].pc = "putModel",
                                        ![u].form = form,
                                        ![u].id = randomUUID(UsedIds),
                                        ![u].name = modelName,
                                        ![u].ext = sel.modelExtension,
                                        ![u].modelFile = sel.modelFile,
                                        ![u].textureFile = sel.textureFile]
  /\ UNCHANGED <<store, metaPuts, rd, dl, dispatched, ls>>

\* the model put with its failure swallowed: the handler goes on to the texture
UploadPutModelGoesOn(u, ok) ==
  /\ up[u].pc = "putModel"
  /\ LET key == modelKey(up[u].id, up[u].ext)
     IN  /\ store' = IF ok THEN Put(store, key, Bytes(up[u].modelFile.name)) ELSE store
         /\ up' = [up EXCEPT ![u].pc = "putTexture", ![u].modelUrl = Url(key)]
  /\ UNCHANGED <<metaPuts, rd, dl, dispatched, ls>>

\* lines 98-100: put the model blob
UploadPutModel(u, ok) ==
  /\ up[u].pc = "putModel"
  /\ LET key == modelKey(up[u].id, up[u].ext)
     IN  IF ok
         THEN /\ store' = Put(store, key, Bytes(up[u].modelFile.name))
              /\ up' = [up EXCEPT ![u].pc = "putTexture", ![u].modelUrl = Url(key)]
         ELSE /\ store' = store
              /\ up' = [up EXCEPT ![u] = UpDone(up[u].form, up[u].id, 500, Undefined, "none")]
  /\ UNCHANGED <<metaPuts, rd, dl, dispatched, ls>>

\* the texture put with a rollback: a failure removes the model blob again
UploadPutTextureRollsBack(u, ok, now) ==
  /\ up[u].pc = "putTexture"
  /\ LET key == textureKey(up[u].id)
     IN  IF ok
         THEN /\ store' = Put(store, key, Bytes(up[u].textureFile.name))
              /\ up' = [up EXCEPT ![u].pc = "putMeta", ![u].textureUrl = Url(key),
                                    ![u].timestamp = now]
         ELSE /\ store' = Del(store, { KeyOf(up[u].modelUrl) })
              /\ up' = [up EXCEPT ![u] = UpDone(up[u].form, up[u].id, 500, Undefined, "none")]
  /\ UNCHANGED <<metaPuts, rd, dl, dispatched, ls>>

\* lines 103-116: put the texture blob; when the put has resolved the handler
\* runs on to the next await and reads Date.now() (line 115) on its way: now.
\* Date.now() is the wall clock of the instance that serves the request, so
\* the readings of two requests are not ordered
UploadPutTexture(u, ok, now) ==
  /\ up[u].pc = "putTexture"
  /\ LET key == textureKey(up[u].id)
     IN  IF ok
         THEN /\ store' = Put(store, key, Bytes(up[u].textureFile.name))
              /\ up' = [up EXCEPT ![u].pc = "putMeta", ![u].textureUrl = Url(key),
                                    ![u].timestamp = now]
         ELSE /\ store' = store
              /\ up' = [up EXCEPT ![u] = UpDone(up[u].form, up[u].id, 500, Undefined, "none")]
  /\ UNCHANGED <<metaPuts, rd, dl, dispatched, ls>>

\* the record with the two locations swapped
newModelMetadataSwapped(u, now) ==
  [id |-> up[u].id,
   name |-> up[u].name,
   modelUrl |-> up[u].textureUrl,
   textureUrl |-> up[u].modelUrl,
   modelType |-> substring1(up[u].ext),
   status |-> "Uploaded",
   thumbnailUrl |-> Undefined,
   timestamp |-> now]

\* lines 108-116: the metadata record of a new upload
newModelMetadata(u, now) ==
  [id |-> up[u].id,
   name |-> up[u].name,
   modelUrl |-> up[u].modelUrl,
   textureUrl |-> up[u].textureUrl,
   modelType |-> substring1(up[u].ext),
   status |-> "Uploaded",
   thumbnailUrl |-> Undefined,
   timestamp |-> now]

\* line 137: the message of the 200 answer
uploadMessage == "Upload erfolgreich, Rendering läuft im Hintergrund."

\* the step with the thumbnail request awaited: a request that fails reaches the catch
UploadPutMetaAwaitsDispatch(u, ok, sent) ==
  /\ up[u].pc = "putMeta"
  /\ IF ok
     THEN /\ store' = Put(store, metadataKey(up[u].id), newModelMetadata(u, up[u].timestamp))
          /\ metaPuts' = [metaPuts EXCEPT ![up[u].id] = @ + 1]
          /\ dispatched' = [dispatched EXCEPT ![up[u].id] = @ + 1]
          /\ up' = [up EXCEPT ![u] = IF sent
                                     THEN UpDone(up[u].form, up[u].id, 200,
                                                 [id |-> up[u].id, name |-> up[u].name,
                                                  message |-> uploadMessage],
                                                 "sent")
                                     ELSE UpDone(up[u].form, up[u].id, 500, Undefined, "failed")]
     ELSE /\ store' = store
          /\ metaPuts' = metaPuts
          /\ dispatched' = dispatched
          /\ up' = [up EXCEPT ![u] = UpDone(up[u].form, up[u].id, 500, Undefined, "none")]
  /\ UNCHANGED <<rd, dl, ls>>

\* the step with the thumbnail request fired before the metadata put is awaited
UploadPutMetaDispatchesFirst(u, ok, sent) ==
  /\ up[u].pc = "putMeta"
  /\ dispatched' = [dispatched EXCEPT ![up[u].id] = @ + 1]
  /\ IF ok
     THEN /\ store' = Put(store, metadataKey(up[u].id), newModelMetadata(u, up[u].timestamp))
          /\ metaPuts' = [metaPuts EXCEPT ![up[u].id] = @ + 1]
          /\ up' = [up EXCEPT ![u] = UpDone(up[u].form, up[u].id, 200,
                                            [id |-> up[u].id, name |-> up[u].name,
                                             message |-> uploadMessage],
                                            IF sent THEN "sent" ELSE "failed")]
     ELSE /\ store' = store
          /\ metaPuts' = metaPuts
          /\ up' = [up EXCEPT ![u] = UpDone(up[u].form, up[u].id, 500, Undefined,
                                            IF sent THEN "sent" ELSE "failed")]
  /\ UNCHANGED <<rd, dl, ls>>

\* lines 119-143: put the metadata built with the time read before the put,
\* fire the thumbnail request without awaiting it (it is sent or it fails), answer
UploadPutMeta(u, ok, sent) ==
  /\ up[u].pc = "putMeta"
  /\ IF ok
     THEN /\ store' = Put(store, metadataKey(up[u].id), newModelMetadata(u, up[u].timestamp))
          /\ metaPuts' = [metaPuts EXCEPT ![up[u].id] = @ + 1]
          /\ dispatched' = [dispatched EXCEPT ![up[u].id] = @ + 1]
          /\ up' = [up EXCEPT ![u] = UpDone(up[u].form, up[u].id, 200,
                                            [id |-> up[u].id, name |-> up[u].name,
                                             message |-> uploadMessage],
                                            IF sent THEN "sent" ELSE "failed")]
     ELSE /\ store' = store
          /\ metaPuts' = metaPuts
          /\ dispatched' = dispatched
          /\ up' = [up EXCEPT ![u] = UpDone(up[u].form, up[u].id, 500, Undefined, "none")]
  /\ UNCHANGED <<rd, dl, ls>>

UploadSteps(u) ==
  \/ \E ok \in BOOLEAN : UploadPutModel(u, ok)
  \/ \E ok \in BOOLEAN, now \in 0 .. MaxTime : UploadPutTexture(u, ok, now)
  \/ \E ok \in BOOLEAN, sent \in BOOLEAN : UploadPutMeta(u, ok, sent)

Upload == \E u \in 1 .. MaxUploads :
            \/ \E form \in SampleForms : UploadStart(u, form)
            \/ UploadSteps(u)

\* two upload requests, the second drawn from every form
UploadAnyForm == \/ \E form \in SampleForms : UploadStart(1, form)
                 \/ \E form \in Forms : UploadStart(2, form)
                 \/ UploadSteps(1)
                 \/ UploadSteps(2)

\* one upload request, drawn from the archives of SelectForms
UploadSelect == \/ \E form \in SelectForms : UploadStart(1, form)
                \/ UploadSteps(1)

---------------------------------------------------------------------------
(* thumbnail.js handler *)

\* req.body of a render or delete request: undefined (no body was sent), an
\* object without the id, or an object with it
Bodies == { "undefined", "noId", "id" }

\* the ids a request with that body can name, and the courses its handler can
\* take: a request that is answered before anything is started has one course
NamedIds(body) == IF body = "id" THEN AllIds ELSE {UnknownId}
Courses(body, outcomes) == IF body = "id" THEN outcomes ELSE { CHOOSE o \in outcomes : TRUE }

\* what the headless browser session of lines 38-69 can end in
RenderOutcomes == { "launchFailed", "gotoFailed", "timeout", "screenshotFailed", "signalled" }

\* what a fetch of `${origin}/models/${id}/metadata.json` can end in
FetchOutcomes(s, id) == IF Has(s, metadataKey(id)) THEN { "ok", "throw" } ELSE { "notOk", "throw" }

\* the session with the timeout of the wait not treated as a failure
RenderStartNoTimeout(r, body, id, outcome) ==
  /\ rd[r].pc = "idle"
  /\ IF r = 1 THEN TRUE ELSE rd[r - 1].pc # "idle"
  /\ Started < MaxRequests
  /\ id \in Published \cup {UnknownId}
  /\ IF body = "undefined"
     THEN rd' = [rd EXCEPT ![r] = RdThrew]
     ELSE IF body = "noId"
     THEN rd' = [rd EXCEPT ![r] = RdDone(UnknownId, 400)]
     ELSE IF outcome \in { "signalled", "timeout" }
     THEN rd' = [rd EXCEPT ![r].pc = "putThumb", ![r].id = id, ![r].signalled = (outcome = "signalled")]
     ELSE rd' = [rd EXCEPT ![r] = RdDone(id, 500)]
  /\ UNCHANGED <<store, metaPuts, up, dl, dispatched, ls>>

\* lines 25-69: read the id, launch the browser, open the render page, wait for
\* window.renderingFinished, take the screenshot.  Line 25 destructures req.body
\* before the try block opens: without a body the handler throws and answers nothing
RenderStart(r, body, id, outcome) ==
  /\ rd[r].pc = "idle"
  /\ IF r = 1 THEN TRUE ELSE rd[r - 1].pc # "idle"
  /\ Started < MaxRequests
  /\ id \in Published \cup {UnknownId}
  /\ IF body = "undefined"
     THEN rd' = [rd EXCEPT ![r] = RdThrew]
     ELSE IF body = "noId"
     THEN rd' = [rd EXCEPT ![r] = RdDone(UnknownId, 400)]
     ELSE IF outcome = "signalled"
     THEN rd' = [rd EXCEPT ![r].pc = "putThumb", ![r].id = id, ![r].signalled = TRUE]
     ELSE \* catch with metadata still undefined: nothing is written
          rd' = [rd EXCEPT ![r] = RdDone(id, 500)]
  /\ UNCHANGED <<store, metaPuts, up, dl, dispatched, ls>>

\* the thumbnail put whose failure marks the stored record, if any, as Error
RenderPutThumbMarksError(r, ok) ==
  /\ rd[r].pc = "putThumb"
  /\ LET key == thumbnailKey(rd[r].id)
         meta == metadataKey(rd[r].id)
     IN  IF ok
         THEN /\ store' = Put(store, key, Bytes(<<"screenshot">>))
              /\ metaPuts' = metaPuts
              /\ rd' = [rd EXCEPT ![r].pc = "loadMeta", ![r].thumbnailBlobUrl = Url(key)]
         ELSE /\ IF Has(store, meta)
                 THEN /\ store' = Put(store, meta, [store[meta] EXCEPT !.status = "Error"])
                      /\ metaPuts' = [metaPuts EXCEPT ![rd[r].id] = @ + 1]
                 ELSE /\ store' = store
                      /\ metaPuts' = metaPuts
              /\ rd' = [rd EXCEPT ![r] = RdDone(rd[r].id, 500)]
  /\ UNCHANGED <<up, dl, dispatched, ls>>

\* lines 72-76: put the screenshot
RenderPutThumb(r, ok) ==
  /\ rd[r].pc = "putThumb"
  /\ LET key == thumbnailKey(rd[r].id)
     IN  IF ok
         THEN /\ store' = Put(store, key, Bytes(<<"screenshot">>))
              /\ rd' = [rd EXCEPT ![r].pc = "loadMeta", ![r].thumbnailBlobUrl = Url(key)]
         ELSE /\ store' = store
              /\ rd' = [rd EXCEPT ![r] = RdDone(rd[r].id, 500)]
  /\ UNCHANGED <<metaPuts, up, dl, dispatched, ls>>

\* the load with the copy stamped anew
RenderLoadMetaRestamps(r, outcome) ==
  /\ rd[r].pc = "loadMeta"
  /\ outcome \in FetchOutcomes(store, rd[r].id)
  /\ IF outcome = "ok"
     THEN rd' = [rd EXCEPT ![r].pc = "putReady",
                           ![r].metadata = [store[metadataKey(rd[r].id)] EXCEPT
                                               !.status = "Ready",
                                               !.thumbnailUrl = rd[r].thumbnailBlobUrl,
                                               !.timestamp = @ + 1]]
     ELSE rd' = [rd EXCEPT ![r] = RdDone(rd[r].id, 500)]
  /\ UNCHANGED <<store, metaPuts, up, dl, dispatched, ls>>

\* lines 79-92: fetch the stored metadata, then set status and thumbnailUrl on the copy
RenderLoadMeta(r, outcome) ==
  /\ rd[r].pc = "loadMeta"
  /\ outcome \in FetchOutcomes(store, rd[r].id)
  /\ IF outcome = "ok"
     THEN rd' = [rd EXCEPT ![r].pc = "putReady",
                           ![r].metadata = [store[metadataKey(rd[r].id)] EXCEPT
                                               !.status = "Ready",
                                               !.thumbnailUrl = rd[r].thumbnailBlobUrl]]
     ELSE rd' = [rd EXCEPT ![r] = RdDone(rd[r].id, 500)]
  /\ UNCHANGED <<store, metaPuts, up, dl, dispatched, ls>>

\* the put with the catch leaving the status of the copy as it is
RenderPutReadyKeepsStatus(r, ok) ==
  /\ rd[r].pc = "putReady"
  /\ IF ok
     THEN /\ store' = Put(store, metadataKey(rd[r].id), rd[r].metadata)
          /\ metaPuts' = [metaPuts EXCEPT ![rd[r].id] = @ + 1]
          /\ rd' = [rd EXCEPT ![r] = RdDone(rd[r].id, 200)]
     ELSE /\ store' = store
          /\ metaPuts' = metaPuts
          /\ rd' = [rd EXCEPT ![r].pc = "putError"]
  /\ UNCHANGED <<up, dl, dispatched, ls>>

\* lines 95-106: put the updated metadata; a failure enters the catch of line 108,
\* which sets status = 'Error' on the copy (line 115)
RenderPutReady(r, ok) ==
  /\ rd[r].pc = "putReady"
  /\ IF ok
     THEN /\ store' = Put(store, metadataKey(rd[r].id), rd[r].metadata)
          /\ metaPuts' = [metaPuts EXCEPT ![rd[r].id] = @ + 1]
          /\ rd' = [rd EXCEPT ![r] = RdDone(rd[r].id, 200)]
     ELSE /\ store' = store
          /\ metaPuts' = metaPuts
          /\ rd' = [rd EXCEPT ![r].pc = "putError", ![r].metadata.status = "Error"]
  /\ UNCHANGED <<up, dl, dispatched, ls>>

\* lines 113-129: try to store the copy with status = 'Error', answer 500 either way
RenderPutError(r, ok) ==
  /\ rd[r].pc = "putError"
  /\ IF ok
     THEN /\ store' = Put(store, metadataKey(rd[r].id), rd[r].metadata)
          /\ metaPuts' = [metaPuts EXCEPT ![rd[r].id] = @ + 1]
     ELSE /\ store' = store
          /\ metaPuts' = metaPuts
  /\ rd' = [rd EXCEPT ![r] = RdDone(rd[r].id, 500)]
  /\ UNCHANGED <<up, dl, dispatched, ls>>

Render == \E r \in 1 .. MaxRenders :
            \/ \E b \in Bodies :
                 \E i \in NamedIds(b), o \in Courses(b, RenderOutcomes) : RenderStart(r, b, i, o)
            \/ \E ok \in BOOLEAN : RenderPutThumb(r, ok)
            \/ \E o \in { "ok", "notOk", "throw" } : RenderLoadMeta(r, o)
            \/ \E ok \in BOOLEAN : RenderPutReady(r, ok)
            \/ \E ok \in BOOLEAN : RenderPutError(r, ok)

---------------------------------------------------------------------------
(* delete handler *)

\* the locations without the metadata file itself
delListNoMetadata(modelMetadata, modelId) ==
  SelectSeq(<< modelMetadata.modelUrl,
               modelMetadata.textureUrl,
               modelMetadata.thumbnailUrl >>,
            LAMBDA url : url # Undefined)

\* lines 83-88: the locations handed to del(), empty ones filtered out
delList(modelMetadata, modelId) ==
  SelectSeq(<< modelMetadata.modelUrl,
               modelMetadata.textureUrl,
               modelMetadata.thumbnailUrl,
               Pathname(metadataKey(modelId)) >>,
            LAMBDA url : url # Undefined)

delKeys(modelMetadata, modelId) ==
  LET l == delList(modelMetadata, modelId) IN { KeyOf(l[i]) : i \in 1 .. Len(l) }

\* the load with a response that is not ok reported as a server error
DeleteLoadNotOkIs500(d, body, id, outcome) ==
  /\ dl[d].pc = "idle"
  /\ IF d = 1 THEN TRUE ELSE dl[d - 1].pc # "idle"
  /\ Started < MaxRequests
  /\ id \in Published \cup {UnknownId}
  /\ IF body = "undefined"
     THEN dl' = [dl EXCEPT ![d] = DlDone(UnknownId, 500, "bodyThrew")]
     ELSE IF body = "noId"
     THEN dl' = [dl EXCEPT ![d] = DlDone(UnknownId, 400, "none")]
     ELSE /\ outcome \in FetchOutcomes(store, id)
          /\ IF outcome = "ok"
             THEN dl' = [dl EXCEPT ![d].pc = "del", ![d].id = id,
                                   ![d].modelMetadata = store[metadataKey(id)]]
             ELSE IF outcome = "notOk"
             THEN dl' = [dl EXCEPT ![d] = DlDone(id, 500, "notOk")]
             ELSE dl' = [dl EXCEPT ![d] = DlDone(id, 500, "fetchThrew")]
  /\ UNCHANGED <<store, metaPuts, up, rd, dispatched, ls>>

\* lines 16-55: read the id, fetch the metadata.  Line 16 destructures req.body
\* inside the outer try: without a body it throws and the catch of line 97 answers 500
DeleteLoad(d, body, id, outcome) ==
  /\ dl[d].pc = "idle"
  /\ IF d = 1 THEN TRUE ELSE dl[d - 1].pc # "idle"
  /\ Started < MaxRequests
  /\ id \in Published \cup {UnknownId}
  /\ IF body = "undefined"
     THEN dl' = [dl EXCEPT ![d] = DlDone(UnknownId, 500, "bodyThrew")]
     ELSE IF body = "noId"
     THEN dl' = [dl EXCEPT ![d] = DlDone(UnknownId, 400, "none")]
     ELSE /\ outcome \in FetchOutcomes(store, id)
          /\ IF outcome = "ok"
             THEN dl' = [dl EXCEPT ![d].pc = "del", ![d].id = id,
                                   ![d].modelMetadata = store[metadataKey(id)]]
             ELSE IF outcome = "notOk"
             THEN dl' = [dl EXCEPT ![d] = DlDone(id, 404, "notOk")]
             ELSE dl' = [dl EXCEPT ![d] = DlDone(id, 500, "fetchThrew")]
  /\ UNCHANGED <<store, metaPuts, up, rd, dispatched, ls>>

\* lines 83-99: the batch delete; when it throws, any part of the batch may have been removed
DeleteBatch(d, ok, removed) ==
  /\ dl[d].pc = "del"
  /\ LET keys == delKeys(dl[d].modelMetadata, dl[d].id)
     IN  /\ removed \subseteq keys
         /\ IF ok
            THEN /\ removed = keys
                 /\ store' = Del(store, keys)
                 /\ dl' = [dl EXCEPT ![d] = DlDone(dl[d].id, 200, "none")]
            ELSE /\ store' = Del(store, removed)
                 /\ dl' = [dl EXCEPT ![d] = DlDone(dl[d].id, 500, "delThrew")]
  /\ UNCHANGED <<metaPuts, up, rd, dispatched, ls>>

\* the batch either succeeds or throws after removing any part of it
DeleteBatchAny(d) ==
  /\ dl[d].pc = "del"
  /\ \E ok \in BOOLEAN, rem \in SUBSET delKeys(dl[d].modelMetadata, dl[d].id) :
        DeleteBatch(d, ok, rem)

Delete == \E d \in 1 .. MaxDeletes :
            \/ \E b \in Bodies :
                 \E i \in NamedIds(b), o \in Courses(b, { "ok", "notOk", "throw" }) :
                    DeleteLoad(d, b, i, o)
            \/ DeleteBatchAny(d)

---------------------------------------------------------------------------
(* list handler *)

\* blob.pathname: `models/${id}/` followed by the file name
blobPathname(key) == <<"models", "/", key.id, "/">> \o key.file

\* line 23-25: blob.pathname.endsWith('/metadata.json')
isMetadataFile(key) == endsWith(blobPathname(key), <<"/", "metadata", ".", "json">>)

\* the orders in which the store can enumerate a set of keys
Enumerations(keys) ==
  { f \in [1 .. Cardinality(keys) -> keys] : \A i, j \in DOMAIN f : f[i] = f[j] => i = j }

\* models.filter(model => model !== null)
notNull(fetched) == SelectSeq(fetched, LAMBDA m : m # Null)

\* m put into a sequence sorted by (a, b) => a.timestamp - b.timestamp, after its equals
RECURSIVE insertAscending(_, _)
insertAscending(sorted, m) ==
  IF sorted = <<>> THEN <<m>>
  ELSE IF Head(sorted).timestamp - m.timestamp > 0 THEN <<m>> \o sorted
  ELSE <<Head(sorted)>> \o insertAscending(Tail(sorted), m)

\* the sort with the comparator turned round: oldest first
RECURSIVE sortOldestFirst(_)
sortOldestFirst(models) ==
  IF models = <<>> THEN <<>>
  ELSE insertAscending(sortOldestFirst(SubSeq(models, 1, Len(models) - 1)), models[Len(models)])

\* m put into a sequence sorted by (a, b) => b.timestamp - a.timestamp, after its equals
RECURSIVE insertDescending(_, _)
insertDescending(sorted, m) ==
  IF sorted = <<>> THEN <<m>>
  ELSE IF m.timestamp - Head(sorted).timestamp > 0 THEN <<m>> \o sorted
  ELSE <<Head(sorted)>> \o insertDescending(Tail(sorted), m)

\* line 44: models.sort((a, b) => b.timestamp - a.timestamp), a stable sort
RECURSIVE sortNewestFirst(_)
sortNewestFirst(models) ==
  IF models = <<>> THEN <<>>
  ELSE insertDescending(sortNewestFirst(SubSeq(models, 1, Len(models) - 1)), models[Len(models)])

\* lines 17-25: list the blobs under models/ (the limit of 1000 is far above
\* what the store can hold here) and keep the metadata files, in the store's order
ListStart(l, ok) ==
  /\ ls[l].pc = "idle"
  /\ IF l = 1 THEN TRUE ELSE ls[l - 1].pc # "idle"
  /\ Started < MaxRequests
  /\ IF ok
     THEN \E files \in Enumerations({ k \in DOMAIN store : isMetadataFile(k) }) :
             ls' = [ls EXCEPT ![l].pc = "get",
                              ![l].metadataFiles = files,
                              ![l].fetched = [i \in 1 .. Len(files) |-> Pending]]
     ELSE ls' = [ls EXCEPT ![l] = LsDone(500, <<>>)]
  /\ UNCHANGED <<store, metaPuts, up, rd, dl, dispatched>>

\* lines 28-38: one of the gets settles: the content stored now, or null when it threw
ListGet(l, i, ok) ==
  /\ ls[l].pc = "get"
  /\ i \in 1 .. Len(ls[l].metadataFiles)
  /\ ls[l].fetched[i] = Pending
  /\ ok => Has(store, ls[l].metadataFiles[i])
  /\ ls' = [ls EXCEPT ![l].fetched[i] = IF ok THEN store[ls[l].metadataFiles[i]] ELSE Null]
  /\ UNCHANGED <<store, metaPuts, up, rd, dl, dispatched>>

\* lines 41-47: all gets have settled: drop the nulls, sort, answer
ListAnswer(l) ==
  /\ ls[l].pc = "get"
  /\ \A i \in 1 .. Len(ls[l].fetched) : ls[l].fetched[i] # Pending
  /\ ls' = [ls EXCEPT ![l] = LsDone(200, sortNewestFirst(notNull(ls[l].fetched)))]
  /\ UNCHANGED <<store, metaPuts, up, rd, dl, dispatched>>

List == \E l \in 1 .. MaxLists :
          \/ \E ok \in BOOLEAN : ListStart(l, ok)
          \/ \E i \in 1 .. MaxUploads, ok \in BOOLEAN : ListGet(l, i, ok)
          \/ ListAnswer(l)

Next == Upload \/ Render \/ Delete

---------------------------------------------------------------------------
(* Properties *)

IsMetadataKey(k) == k.file = <<"metadata", ".", "json">>

\* an entry that is not a directory and whose lower-cased name ends with one of exts
HasEntry(entries, exts) ==
  \E i \in 1 .. Len(entries) :
     /\ ~entries[i].dir
     /\ \E e \in exts : endsWith(toLowerCase(entries[i].name), e)

ModelExts == { <<".", "obj">>, <<".", "gltf">>, <<".", "glb">>, <<".", "json">> }

\* C1: when the three puts of an upload have succeeded, the store holds at
\* models/{id}/metadata.json a record with status Uploaded, modelUrl and
\* textureUrl the locations the model put and the texture put returned, and an
\* id no asset already in the store has; the answer is 200 with that id and name.
C1_UploadCreatesRecord ==
  [][\A u \in 1 .. MaxUploads :
       (up[u].pc = "putMeta" /\ up'[u].resp = 200) =>
          LET id == up[u].id
              key == metadataKey(id)
          IN  /\ Has(store', key)
              /\ store'[key].status = "Uploaded"
              /\ store'[key].id = id
              /\ store'[key].modelUrl = Url(modelKey(id, up[u].ext))
              /\ store'[key].textureUrl = Url(textureKey(id))
              /\ Has(store', KeyOf(store'[key].modelUrl))
              /\ Has(store', KeyOf(store'[key].textureUrl))
              /\ \A k \in DOMAIN store : IsMetadataKey(k) => (k.id # id /\ store[k].id # id)
              /\ up'[u].body = [id |-> id, name |-> trim(up[u].form.modelName.text),
                                message |-> uploadMessage]
              /\ trim(up[u].form.modelName.text) # <<>>
              /\ HasEntry(up[u].form.file.entries, ModelExts)
              /\ HasEntry(up[u].form.file.entries, {<<".", "png">>})]_vars

\* an upload has just answered 200 while another asset was already stored
C1_Witness ==
  \E u \in 1 .. MaxUploads :
     /\ up[u].pc = "done" /\ up[u].resp = 200
     /\ \E k \in DOMAIN store : IsMetadataKey(k) /\ k.id # up[u].id

\* the validation failures C2 names
FailsValidation(form) ==
  /\ form.parsed
  /\ \/ ~form.modelName.given
     \/ form.modelName.text = <<>>
     \/ ~form.file.given
     \/ form.file.wellFormed /\ ~HasEntry(form.file.entries, ModelExts)
     \/ form.file.wellFormed /\ ~HasEntry(form.file.entries, {<<".", "png">>})

\* C2: an upload that fails validation (name missing or empty, file missing,
\* archive without a model entry or without a .png entry) is answered 400 and
\* leaves the store and the render dispatches exactly as they were.
C2_ValidationFailureWritesNothing ==
  [][\A u \in 1 .. MaxUploads :
       (up[u].pc = "idle" /\ up'[u].pc # "idle" /\ FailsValidation(up'[u].form)) =>
          /\ up'[u].pc = "done"
          /\ up'[u].resp = 400
          /\ store' = store
          /\ dispatched' = dispatched]_vars

\* an archive whose only .png entry is a directory has been refused while an
\* earlier upload's blobs were in the store
C2_Witness ==
  \E u \in 1 .. MaxUploads :
     /\ up[u].pc = "done" /\ up[u].resp = 400
     /\ trim(up[u].form.modelName.text) # <<>>
     /\ up[u].form.file.wellFormed
     /\ HasEntry(up[u].form.file.entries, ModelExts)
     /\ \E i \in 1 .. Len(up[u].form.file.entries) : up[u].form.file.entries[i].dir
     /\ DOMAIN store # {}

\* C3: an upload whose file is not a well-formed archive is answered 400.
C3_MalformedArchiveIs400 ==
  \A u \in 1 .. MaxUploads :
     ( /\ up[u].pc # "idle"
       /\ up[u].form.parsed
       /\ up[u].form.modelName.given /\ trim(up[u].form.modelName.text) # <<>>
       /\ up[u].form.file.given /\ ~up[u].form.file.wellFormed )
     => (up[u].pc = "done" /\ up[u].resp = 400)

\* the stored status of id, when a record is stored
Status(s, id) == s[metadataKey(id)].status

\* C4: across uploads, renders and deletes, every put of a metadata record
\* either creates it with status Uploaded or turns a stored status Uploaded
\* into Ready or Error; a record whose status is Ready or Error is never put again.
C4_StatusOnlyLeavesUploaded ==
  [][\A id \in AllIds :
       metaPuts'[id] # metaPuts[id] =>
          IF Has(store, metadataKey(id))
          THEN Status(store, id) = "Uploaded" /\ Status(store', id) \in { "Ready", "Error" }
          ELSE Status(store', id) = "Uploaded"]_vars

\* C5: a render invocation puts a record with status Ready only after the
\* renderer has signalled completion and the thumbnail put has returned its url.
C5_ReadyOnlyAfterSignalAndThumbnail ==
  [][\A r \in 1 .. MaxRenders :
       ( /\ rd'[r] # rd[r]
         /\ metaPuts'[rd[r].id] # metaPuts[rd[r].id]
         /\ Status(store', rd[r].id) = "Ready" )
       => /\ rd[r].signalled
          /\ rd[r].thumbnailBlobUrl = Url(thumbnailKey(rd[r].id))
          /\ store'[metadataKey(rd[r].id)].thumbnailUrl = rd[r].thumbnailBlobUrl]_vars

\* a render invocation has answered 200 and the stored record is Ready
C5_Witness ==
  \E r \in 1 .. MaxRenders :
     /\ rd[r].pc = "done" /\ rd[r].resp = 200
     /\ Has(store, metadataKey(rd[r].id))
     /\ Status(store, rd[r].id) = "Ready"

\* C6 as claimed: a render invocation that fails after it loaded the record
\* ends with the stored status Error.
C6_FailureAfterLoadStoresError ==
  [][\A r \in 1 .. MaxRenders :
       (rd[r].metadata # Undefined /\ rd'[r].pc = "done" /\ rd'[r].resp = 500) =>
          /\ Has(store', metadataKey(rd[r].id))
          /\ Status(store', rd[r].id) = "Error"]_vars

\* C6 as amended: a render invocation that fails after it loaded the record
\* answers 500; if its put of the Error copy succeeds the stored status is Error
\* when it ends, and if that put fails too the store is left as it was.
C6_FailureAfterLoadTriesError ==
  [][\A r \in 1 .. MaxRenders :
       (rd[r].metadata # Undefined /\ rd'[r].pc = "done" /\ rd'[r].resp = 500) =>
          IF metaPuts'[rd[r].id] # metaPuts[rd[r].id]
          THEN /\ Has(store', metadataKey(rd[r].id))
               /\ Status(store', rd[r].id) = "Error"
          ELSE store' = store]_vars

\* a render invocation has answered 500 and the stored record is Error
C6_Witness ==
  \E r \in 1 .. MaxRenders :
     /\ rd[r].pc = "done" /\ rd[r].resp = 500
     /\ Has(store, metadataKey(rd[r].id))
     /\ Status(store, rd[r].id) = "Error"

\* a delete request that names an id (its body holds one) and starts while the
\* record of that id is absent from the store
AbsentDelete(d) ==
  /\ dl[d].pc = "idle" /\ dl'[d].pc # "idle"
  /\ dl'[d].resp # 400 /\ dl'[d].err # "bodyThrew"
  /\ ~Has(store, metadataKey(dl'[d].id))

\* C7 as claimed: a delete request for an id whose record is absent is answered
\* 404, issues no batch delete and leaves every key in the store unchanged.
C7_DeleteOfAbsentIsNotFound ==
  [][\A d \in 1 .. MaxDeletes :
       AbsentDelete(d)
       => /\ dl'[d].pc = "done"
          /\ dl'[d].resp = 404
          /\ store' = store
          /\ metaPuts' = metaPuts]_vars

\* C7 as amended: a delete request for an id whose record is absent issues no
\* batch delete and leaves every key in the store unchanged; it is answered 404
\* when the fetch of the record returns not-ok and 500 when that fetch throws.
C7_DeleteOfAbsentAnswers ==
  [][\A d \in 1 .. MaxDeletes :
       AbsentDelete(d)
       => /\ dl'[d].pc = "done"
          /\ store' = store
          /\ metaPuts' = metaPuts
          /\ dl'[d].err \in { "notOk", "fetchThrew" }
          /\ dl'[d].err = "notOk" => dl'[d].resp = 404
          /\ dl'[d].err = "fetchThrew" => dl'[d].resp = 500]_vars

\* one delete of an absent record has been answered 404 and another, whose
\* fetch threw, 500, while other blobs were in the store
C7_Witness ==
  \E d1, d2 \in 1 .. MaxDeletes :
     /\ dl[d1].pc = "done" /\ dl[d1].resp = 404
     /\ dl[d2].pc = "done" /\ dl[d2].resp = 500 /\ dl[d2].err = "fetchThrew"
     /\ ~Has(store, metadataKey(dl[d2].id))
     /\ DOMAIN store # {}

\* C8: once a delete for an id has been answered 200, no record of that id is
\* in the store.
C8_DeletedStaysDeleted ==
  \A d \in 1 .. MaxDeletes :
     (dl[d].pc = "done" /\ dl[d].resp = 200) => ~Has(store, metadataKey(dl[d].id))

\* the keys C9 requires in the batch: each location of the record, or the
\* convention key where the record lacks it
RequiredKeys(m, id) ==
  { metadataKey(id),
    IF m.modelUrl # Undefined THEN KeyOf(m.modelUrl) ELSE modelKey(id, <<".">> \o m.modelType),
    IF m.textureUrl # Undefined THEN KeyOf(m.textureUrl) ELSE textureKey(id),
    IF m.thumbnailUrl # Undefined THEN KeyOf(m.thumbnailUrl) ELSE thumbnailKey(id) }

\* C9: the batch of a delete that found the record contains the metadata key
\* and the model, texture and thumbnail locations (the convention key for a
\* location the record lacks); after a batch that succeeds none of them is stored.
C9_BatchCoversAllBlobs ==
  [][\A d \in 1 .. MaxDeletes :
       (dl[d].pc = "del" /\ dl'[d].pc = "done") =>
          /\ RequiredKeys(dl[d].modelMetadata, dl[d].id)
                \subseteq delKeys(dl[d].modelMetadata, dl[d].id)
          /\ dl'[d].resp = 200 =>
                RequiredKeys(dl[d].modelMetadata, dl[d].id) \cap DOMAIN store' = {}]_vars

\* the keys a record refers to
ReferencedKeys(m, id) ==
  { KeyOf(m.modelUrl), KeyOf(m.textureUrl), metadataKey(id) }
  \cup (IF m.thumbnailUrl # Undefined THEN { KeyOf(m.thumbnailUrl) } ELSE {})

\* C10: a delete never fails for a key that is already gone: it answers 500
\* only when reading the body, the fetch or the batch delete threw, a repeated
\* delete of the same id is answered 404 or 200, and when a delete answers 200
\* none of the keys its record refers to is stored, whether or not another
\* delete removed them first.
C10_DeleteIdempotent ==
  [][\A d \in 1 .. MaxDeletes :
       /\ (dl'[d].pc = "done" /\ dl'[d].resp = 500) => dl'[d].err \in { "bodyThrew", "fetchThrew", "delThrew" }
       /\ (dl[d].pc = "del" /\ dl'[d].pc = "done" /\ dl'[d].resp = 200) =>
             ReferencedKeys(dl[d].modelMetadata, dl[d].id) \cap DOMAIN store' = {}]_vars

\* two deletes of the same id have both answered 200
C10_Witness ==
  \E d1, d2 \in 1 .. MaxDeletes :
     /\ d1 # d2
     /\ dl[d1].id = dl[d2].id
     /\ dl[d1].pc = "done" /\ dl[d1].resp = 200
     /\ dl[d2].pc = "done" /\ dl[d2].resp = 200

\* C11: the step in which an upload's put of the metadata record succeeds also
\* answers it, with 200 and {id, name, message}; no render invocation takes a
\* step in between, the answer is the same whether the thumbnail request was
\* sent or failed, and no later step of any render changes it.
C11_AnswerIndependentOfRender ==
  [][\A u \in 1 .. MaxUploads :
       /\ (up[u].pc = "putMeta" /\ metaPuts'[up[u].id] # metaPuts[up[u].id]) =>
             /\ up'[u].pc = "done"
             /\ up'[u].resp = 200
             /\ up'[u].body = [id |-> up[u].id, name |-> up[u].name, message |-> uploadMessage]
             /\ up'[u].dispatch \in { "sent", "failed" }
             /\ rd' = rd
       /\ up[u].pc = "done" => up'[u] = up[u]]_vars

\* an upload whose thumbnail request failed was answered 200, and a render of
\* its asset has since failed
C11_Witness ==
  \E u \in 1 .. MaxUploads, r \in 1 .. MaxRenders :
     /\ up[u].pc = "done" /\ up[u].resp = 200 /\ up[u].dispatch = "failed"
     /\ rd[r].pc = "done" /\ rd[r].id = up[u].id /\ rd[r].resp = 500

\* entry e is a file whose lower-cased name ends with one of exts
Matches(e, exts) == ~e.dir /\ \E x \in exts : endsWith(toLowerCase(e.name), x)

\* the first entry of entries, in enumeration order, that matches
FirstMatch(entries, exts) ==
  entries[CHOOSE i \in 1 .. Len(entries) :
            /\ Matches(entries[i], exts)
            /\ \A j \in 1 .. i - 1 : ~Matches(entries[j], exts)]

\* C12: an accepted upload has selected as the model the first entry, in
\* enumeration order, that is no directory and whose lower-cased name ends with
\* .obj, .gltf, .glb or .json, and as the texture the first such entry ending
\* with .png; these are the blobs it stores, and the modelType of its record
\* is the extension the model entry's name ends with, without the dot.
C12_FirstMatchSelected ==
  [][\A u \in 1 .. MaxUploads :
       LET entries == up'[u].form.file.entries
           model == FirstMatch(entries, ModelExts)
           texture == FirstMatch(entries, {<<".", "png">>})
       IN  /\ (up[u].pc = "idle" /\ up'[u].pc = "putModel") =>
                /\ up'[u].modelFile = model
                /\ up'[u].textureFile = texture
                /\ up'[u].ext \in ModelExts
                /\ endsWith(toLowerCase(model.name), up'[u].ext)
           /\ (up[u].pc = "putModel" /\ up'[u].pc = "putTexture") =>
                store'[KeyOf(up'[u].modelUrl)] = Bytes(model.name)
           /\ (up[u].pc = "putTexture" /\ up'[u].pc = "putMeta") =>
                store'[KeyOf(up'[u].textureUrl)] = Bytes(texture.name)
           /\ (up[u].pc = "putMeta" /\ up'[u].resp = 200) =>
                LET modelType == store'[metadataKey(up[u].id)].modelType
                IN  /\ (<<".">> \o modelType) \in ModelExts
                    /\ endsWith(toLowerCase(model.name), <<".">> \o modelType)
                    /\ Len(modelType) = 1 /\ modelType[1] # "."]_vars

\* an upload was accepted whose archive holds a second model entry with another
\* extension and a second texture entry, both after the ones selected
C12_Witness ==
  \E u \in 1 .. MaxUploads :
     /\ up[u].pc = "done" /\ up[u].resp = 200
     /\ LET entries == up[u].form.file.entries
        IN  \E i, j, k \in 1 .. Len(entries) :
               /\ i < j /\ j < k
               /\ Matches(entries[i], ModelExts)
               /\ Matches(entries[j], {<<".", "png">>})
               /\ Matches(entries[k], ModelExts)
               /\ findExt(toLowerCase(entries[k].name)) # findExt(toLowerCase(entries[i].name))

\* C13: a listing that the store's list call did not fail is answered 200 with
\* exactly the records whose get succeeded, one for each metadata file found
\* under models/ when the store was listed, no failed get among them, each
\* entry's timestamp greater than or equal to the next entry's.
C13_ListNewestFirst ==
  [][\A l \in 1 .. MaxLists :
       /\ (ls[l].pc = "idle" /\ ls'[l].pc = "get") =>
             /\ { ls'[l].metadataFiles[i] : i \in 1 .. Len(ls'[l].metadataFiles) }
                   = { k \in DOMAIN store : IsMetadataKey(k) }
             /\ Len(ls'[l].metadataFiles) = Cardinality({ k \in DOMAIN store : IsMetadataKey(k) })
       /\ (ls[l].pc = "get" /\ ls'[l].pc = "done") =>
             LET body == ls'[l].body
                 got == { i \in 1 .. Len(ls[l].fetched) : ls[l].fetched[i] # Null }
             IN  /\ ls'[l].resp = 200
                 /\ Len(body) = Cardinality(got)
                 /\ { body[i] : i \in 1 .. Len(body) } = { ls[l].fetched[i] : i \in got }
                 /\ \A i \in 1 .. Len(body) :
                       /\ body[i].id \in Ids
                       /\ \A j \in 1 .. Len(body) : body[i].id = body[j].id => i = j
                 /\ \A i \in 1 .. Len(body) - 1 : body[i].timestamp >= body[i + 1].timestamp]_vars

\* a listing was answered with two records, the newer one first although the
\* store keeps it under the id minted first
C13_Witness ==
  \E l \in 1 .. MaxLists :
     /\ ls[l].pc = "done" /\ ls[l].resp = 200
     /\ Len(ls[l].body) = 2
     /\ ls[l].body[1].timestamp > ls[l].body[2].timestamp
     /\ ls[l].body[1].id < ls[l].body[2].id

\* a delete request for id has been received
DeleteStarted(id) == \E d \in 1 .. MaxDeletes : dl[d].pc # "idle" /\ dl[d].id = id

\* C14: as long as no delete for an id has started, a stored texture blob of
\* the id comes with a stored model blob, and a stored metadata record of the
\* id comes with both: the blobs it refers to are the model and texture keys
\* of the id and are in the store.
C14_RecordImpliesBlobs ==
  \A id \in Ids :
     ~DeleteStarted(id) =>
        /\ Has(store, textureKey(id)) =>
              \E k \in DOMAIN store : k.id = id /\ Head(k.file) = "model"
        /\ Has(store, metadataKey(id)) =>
              LET m == store[metadataKey(id)]
              IN  /\ m.modelUrl = Url(modelKey(id, <<".">> \o m.modelType))
                  /\ m.textureUrl = Url(textureKey(id))
                  /\ Has(store, KeyOf(m.modelUrl))
                  /\ Has(store, KeyOf(m.textureUrl))

\* a record has been written by its upload and again by a render, and no
\* delete for its id has started
C14_Witness ==
  \E id \in Ids :
     /\ Has(store, metadataKey(id))
     /\ metaPuts[id] >= 2
     /\ ~DeleteStarted(id)

\* the keys under models/{id}/ that are in store s
KeysOf(s, id) == { k \in DOMAIN s : k.id = id }

\* C15: a step of an upload at one of its three puts that does not store the
\* blob answers 500, leaves the store as it was (the model blob after a failed
\* texture put, both blobs after a failed metadata put, and no record of the
\* id), and dispatches nothing; afterwards the upload takes no further step,
\* nothing is dispatched for the id and the keys under models/{id}/ stay as
\* they are, without a record.
C15_FailedPutLeavesOrphans ==
  [][\A u \in 1 .. MaxUploads :
       LET id == up[u].id
           failed == /\ up'[u] # up[u]
                     /\ \/ up[u].pc = "putModel" /\ ~Has(store', modelKey(id, up[u].ext))
                        \/ up[u].pc = "putTexture" /\ ~Has(store', textureKey(id))
                        \/ up[u].pc = "putMeta" /\ metaPuts'[id] = metaPuts[id]
       IN  /\ failed =>
                /\ up'[u].pc = "done"
                /\ up'[u].resp = 500
                /\ up'[u].dispatch = "none"
                /\ store' = store
                /\ dispatched' = dispatched
                /\ up[u].pc = "putModel" => KeysOf(store', id) = {}
                /\ up[u].pc = "putTexture" => KeysOf(store', id) = { modelKey(id, up[u].ext) }
                /\ up[u].pc = "putMeta" =>
                      KeysOf(store', id) = { modelKey(id, up[u].ext), textureKey(id) }
           /\ (up[u].pc = "done" /\ up[u].resp = 500 /\ id # UnknownId) =>
                /\ up'[u] = up[u]
                /\ KeysOf(store', id) = KeysOf(store, id)
                /\ ~Has(store', metadataKey(id))
                /\ dispatched'[id] = 0]_vars

\* an upload's metadata put failed and left its two blobs without a record,
\* and they are still there after a delete of another asset succeeded
C15_Witness ==
  \E u \in 1 .. MaxUploads, d \in 1 .. MaxDeletes :
     /\ up[u].pc = "done" /\ up[u].resp = 500
     /\ Has(store, textureKey(up[u].id))
     /\ ~Has(store, metadataKey(up[u].id))
     /\ dl[d].pc = "done" /\ dl[d].resp = 200

\* the fields of a record that are set at its creation
Created(m) == [id |-> m.id, name |-> m.name, modelUrl |-> m.modelUrl,
               textureUrl |-> m.textureUrl, modelType |-> m.modelType,
               timestamp |-> m.timestamp]

\* C16: a render invocation's put of the record, on the Ready path and on the
\* Error path, stores the record it loaded with id, name, modelUrl,
\* textureUrl, modelType and timestamp as loaded; and no step at all changes
\* these fields of a stored record.
C16_RenderKeepsCreatedFields ==
  [][/\ \A r \in 1 .. MaxRenders :
          /\ (rd[r].pc = "loadMeta" /\ rd'[r].pc = "putReady") =>
                Created(rd'[r].metadata) = Created(store[metadataKey(rd[r].id)])
          /\ (rd[r].pc \in { "putReady", "putError" } /\ metaPuts'[rd[r].id] # metaPuts[rd[r].id]) =>
                /\ Created(store'[metadataKey(rd[r].id)]) = Created(rd[r].metadata)
                /\ DOMAIN store'[metadataKey(rd[r].id)] = DOMAIN rd[r].metadata
     /\ \A id \in Ids :
          (Has(store, metadataKey(id)) /\ Has(store', metadataKey(id))) =>
             Created(store'[metadataKey(id)]) = Created(store[metadataKey(id)])]_vars

\* a record that a render had made Ready has been overwritten on the Error path
C16_Witness ==
  \E id \in Ids :
     /\ Has(store, metadataKey(id))
     /\ Status(store, id) = "Error"
     /\ metaPuts[id] >= 3

\* C17: a stored record whose status is Uploaded or Error has no thumbnailUrl,
\* and a stored record whose status is Ready has the location of the
\* thumbnail blob as its thumbnailUrl.
C17_ThumbnailUrlOnlyWhenReady ==
  \A id \in Ids :
     Has(store, metadataKey(id)) =>
        LET m == store[metadataKey(id)]
        IN  IF m.status = "Ready"
            THEN m.thumbnailUrl = Url(thumbnailKey(id))
            ELSE m.thumbnailUrl = Undefined

\* the metadata records in store s, by key
Records(s) == [k \in { j \in DOMAIN s : IsMetadataKey(j) } |-> s[k]]

\* C18: no step a render invocation takes before it has loaded the record
\* (reading the id, the browser session, the thumbnail put, the fetch of the
\* record) puts a metadata record or changes, creates or removes one; a step
\* among them that ends the invocation writes nothing at all and answers 500
\* (400 only for a request without id; a request without body makes the
\* handler throw before it starts anything, and it sends no answer).
C18_FailureBeforeLoadWritesNoRecord ==
  [][\A r \in 1 .. MaxRenders :
       (rd'[r] # rd[r] /\ rd[r].pc \in { "idle", "putThumb", "loadMeta" }) =>
          /\ metaPuts' = metaPuts
          /\ Records(store') = Records(store)
          /\ rd'[r].pc = "done" =>
                /\ store' = store
                /\ rd'[r].resp \in { 400, 500 }
                /\ rd'[r].resp = 400 => (rd[r].pc = "idle" /\ rd'[r].id = UnknownId)
          /\ rd'[r].pc = "threw" => (rd[r].pc = "idle" /\ store' = store)]_vars

\* a render invocation stored the thumbnail, failed to load the record and
\* answered 500; the record is still as its upload wrote it
C18_Witness ==
  \E r \in 1 .. MaxRenders :
     /\ rd[r].pc = "done" /\ rd[r].resp = 500
     /\ Has(store, thumbnailKey(rd[r].id))
     /\ Has(store, metadataKey(rd[r].id))
     /\ Status(store, rd[r].id) = "Uploaded"
     /\ metaPuts[rd[r].id] = 1

\* C19: the thumbnail request for an id is fired at most once, in the step in
\* which the upload of that id has its metadata put accepted and answers 200;
\* an upload that answered anything else has fired none, and once an upload
\* has answered, nothing is fired for its id again, whatever became of the
\* request or of the rendering.
C19_DispatchedOnceAfterRecord ==
  [][/\ \A id \in Ids :
          /\ dispatched'[id] <= 1
          /\ dispatched'[id] # dispatched[id] =>
                \E u \in 1 .. MaxUploads :
                   /\ up[u].pc = "putMeta" /\ up[u].id = id
                   /\ metaPuts'[id] = metaPuts[id] + 1
                   /\ Has(store', metadataKey(id))
                   /\ up'[u].pc = "done" /\ up'[u].resp = 200
     /\ \A u \in 1 .. MaxUploads :
          /\ (up'[u].pc = "done" /\ up'[u].resp # 200) =>
                /\ up'[u].dispatch = "none"
                /\ up'[u].id \in Ids => dispatched'[up'[u].id] = 0
          /\ (up[u].pc = "done" /\ up[u].id \in Ids) =>
                dispatched'[up[u].id] = dispatched[up[u].id]]_vars

\* one upload fired its thumbnail request, which failed, and a render of its
\* asset failed too; another upload failed a put and fired none
C19_Witness ==
  \E u, v \in 1 .. MaxUploads, r \in 1 .. MaxRenders :
     /\ up[u].pc = "done" /\ up[u].resp = 200 /\ up[u].dispatch = "failed"
     /\ dispatched[up[u].id] = 1
     /\ rd[r].pc = "done" /\ rd[r].id = up[u].id /\ rd[r].resp = 500
     /\ up[v].pc = "done" /\ up[v].resp = 500 /\ up[v].id \in Ids
     /\ dispatched[up[v].id] = 0

\* the file names of the storage key convention
ConventionFiles == { <<"model">> \o e : e \in ModelExts }
                   \cup { <<"texture", ".", "png">>, <<"thumbnail", ".", "png">>,
                          <<"metadata", ".", "json">> }

\* the keys a step creates, overwrites or removes
Touched == { k \in DOMAIN store \cup DOMAIN store' :
               \/ Has(store, k) # Has(store', k)
               \/ Has(store, k) /\ Has(store', k) /\ store'[k] # store[k]
               \/ IsMetadataKey(k) /\ metaPuts'[k.id] # metaPuts[k.id] }

\* the ids of the requests that take the step
Acting == { up'[u].id : u \in { v \in 1 .. MaxUploads : up'[v] # up[v] } }
          \cup { rd'[r].id : r \in { q \in 1 .. MaxRenders : rd'[q] # rd[q] } }
          \cup { dl'[d].id : d \in { e \in 1 .. MaxDeletes : dl'[e] # dl[e] } }

\* C20: every key that a step of an upload, render or delete request creates,
\* overwrites or removes lies under models/{id}/ for the id of that request
\* and is one of model.{ext}, texture.png, thumbnail.png and metadata.json of
\* the convention; the keys of every other id stay as they are.
C20_OnlyOwnKeys ==
  [][/\ \A k \in Touched : k.id \in Acting /\ k.file \in ConventionFiles
     /\ \A id \in AllIds \ Acting :
          /\ KeysOf(store', id) = KeysOf(store, id)
          /\ \A k \in KeysOf(store, id) : store'[k] = store[k]]_vars

\* a delete of one asset has answered 200 and has removed its record, while
\* the model, the texture and the record of another asset are all still stored
C20_Witness ==
  \E d \in 1 .. MaxDeletes, id \in Ids :
     /\ dl[d].pc = "done" /\ dl[d].resp = 200 /\ dl[d].id # id
     /\ ~Has(store, metadataKey(dl[d].id))
     /\ Cardinality(KeysOf(store, id)) >= 3
     /\ Has(store, metadataKey(id))

Spec == Init /\ [][Next]_vars

\* uploads and thumbnail renderings, no delete
SpecNoDelete == Init /\ [][Upload \/ Render]_vars

\* the upload handler alone, over every form
SpecUpload == Init /\ [][UploadAnyForm]_vars

\* uploads, deletes and listings
SpecList == Init /\ [][Upload \/ Delete \/ List]_vars

\* the upload handler alone, one request, over the longer archives
SpecSelect == Init /\ [][UploadSelect]_vars
====
